---- MODULE Spec2Model ----
(***************************************************************************)
(* Advanced Finance Tracker (src/app.py): the session state                *)
(* (transactions, budgets, goals, recurring), the button handlers of the   *)
(* pages that change it, and the aggregation helpers that read it.         *)
(*                                                                         *)
(* Conventions of the model                                                *)
(*  - A text (category, budget key, month token) is a sequence of          *)
(*    one-character strings, so that concatenation and split('_') are      *)
(*    computed character by character.                                     *)
(*  - A calendar date is its day number; a timestamp is a number of ticks, *)
(*    TicksPerDay ticks to the day, midnight of day d being d*TicksPerDay. *)
(*    A month has DaysPerMonth days.                                       *)
(*  - An amount is a whole number of cents; sums are exact.  The rounding  *)
(*    of binary floating point is not modelled.                            *)
(*  - Python lists are sequences; a list index idx is position idx + 1.    *)
(*  - The budgets dict is the sequence of its items in insertion order.    *)
(***************************************************************************)
EXTENDS Integers, Sequences, FiniteSets

\* ------------------------------------------------------------------ bounds
MaxRecords == 3
MaxTicks == 1
MaxDays == 1
MaxN == 3
MaxClickIdx == 2

\* ------------------------------------------------------- calendar and clock
TicksPerDay == 2
DaysPerMonth == 2

\* The dates and amounts entered: day 1 is the day the session starts on.
Dates == {1, 2}
Amounts == {1, 2}
GoalTargets == {2}
Deadlines == {2}
RecurringAmounts == {2}
Kinds == {"Income", "Expense"}
Categories == {<<"F">>, <<"F", "_", "x">>}
Descriptions == {"note"}
GoalNames == {"Car", "Trip"}
Frequencies == {"Monthly"}

Digits == <<"0", "1", "2", "3", "4", "5", "6", "7", "8", "9">>

\* date.strftime('%Y-%m') within one calendar year: "2025-" and the month
\* number, zero-padded to two digits.
strftime_Ym(day) ==
    LET m == (day \div DaysPerMonth) + 1
    IN <<"2", "0", "2", "5", "-">> \o <<Digits[(m \div 10) + 1], Digits[(m % 10) + 1]>>

\* pd.to_datetime of a stored date: the timestamp of its midnight.
to_datetime(day) == day * TicksPerDay

\* Timestamp.date() / datetime.date(): the day of a timestamp.
date_of(ts) == ts \div TicksPerDay

Months == {strftime_Ym(d) : d \in Dates}

\* The month argument that is absent (None): falsy, like the empty text.
NoMonth == <<>>

\* -------------------------------------------------------------------- state
VARIABLES transactions, budgets, goals, recurring, now, outcome

vars == <<transactions, budgets, goals, recurring, now, outcome>>

\* Number of records the session holds.
Records == Len(transactions) + Len(budgets) + Len(goals) + Len(recurring)

Init ==
    /\ transactions = <<>>
    /\ budgets = <<>>
    /\ goals = <<>>
    /\ recurring = <<>>
    /\ now = TicksPerDay
    /\ outcome = "rendered"

\* ------------------------------------------------------------ text helpers
Min(S) == CHOOSE x \in S : \A y \in S : x <= y

Max(S) == CHOOSE x \in S : \A y \in S : y <= x

\* budget_key.split('_')[0]: the text before the first '_', the whole text
\* when it holds none.
split_first(s) ==
    LET U == {i \in 1..Len(s) : s[i] = "_"}
    IN IF U = {} THEN s ELSE SubSeq(s, 1, Min(U) - 1)

\* Variant: the key leaves the month out.
budget_key_category_only(category, month) == category \o <<"_">>

\* f"{category}_{month}"
budget_key(category, month) == category \o <<"_">> \o month

\* ------------------------------------------------------------ list helpers
\* Variant: pop() without its index, which removes the last element.
list_pop_last(list, idx) ==
    IF idx < Len(list)
    THEN [list |-> SubSeq(list, 1, Len(list) - 1), raised |-> FALSE]
    ELSE [list |-> list, raised |-> TRUE]

\* list.pop(idx) for idx >= 0: removes position idx, or raises IndexError and
\* leaves the list alone when idx is not a position.
list_pop(list, idx) ==
    IF idx < Len(list)
    THEN [list |-> SubSeq(list, 1, idx) \o SubSeq(list, idx + 2, Len(list)),
          raised |-> FALSE]
    ELSE [list |-> list, raised |-> TRUE]

\* dict[key] = value: replaces the value of a key in place, or inserts the
\* key last.
dict_set(d, key, value) ==
    IF \E i \in 1..Len(d) : d[i].key = key
    THEN [i \in 1..Len(d) |-> IF d[i].key = key THEN [key |-> key, amount |-> value] ELSE d[i]]
    ELSE Append(d, [key |-> key, amount |-> value])

\* ------------------------------------------------------ aggregation helpers
\* The frame of a transaction list: one row per transaction, in list order,
\* the stored date parsed to a timestamp.  The empty list gives the empty
\* frame.  The session list is passed as txs.
get_dataframe(txs) ==
    [i \in 1..Len(txs) |-> [txs[i] EXCEPT !.date = to_datetime(txs[i].date)]]

\* Variant: the frame is not filtered by type.
rows_of_any_type(df, kind) == df

\* df[df['type'] == kind]
rows_of_type(df, kind) ==
    LET keep(r) == r.type = kind
    IN SelectSeq(df, keep)

\* df['amount'].sum()
RECURSIVE sum_amount(_)
sum_amount(df) ==
    IF df = <<>> THEN 0 ELSE df[1].amount + sum_amount(Tail(df))

\* Variant: the two totals are subtracted the wrong way round.
calculate_balance_swapped(txs) ==
    LET df == get_dataframe(txs)
    IN IF df = <<>>
       THEN 0
       ELSE sum_amount(rows_of_type(df, "Expense")) - sum_amount(rows_of_type(df, "Income"))

calculate_balance(txs) ==
    LET df == get_dataframe(txs)
    IN IF df = <<>>
       THEN 0
       ELSE LET income == sum_amount(rows_of_type(df, "Income"))
                expenses == sum_amount(rows_of_type(df, "Expense"))
            IN income - expenses

\* dt.to_period('M'), written as its "YYYY-MM" token.
to_period_M(ts) == strftime_Ym(date_of(ts))

\* The Series of a groupby('category')['amount'].sum(): a function from the
\* categories present to their sums.
get_spending_by_category(df, month) ==
    LET expense_df == rows_of_type(df, "Expense")
        in_month(r) == to_period_M(r.date) = month
        selected == IF month # NoMonth /\ expense_df # <<>>
                    THEN SelectSeq(expense_df, in_month)
                    ELSE expense_df
    IN IF selected # <<>>
       THEN [c \in {selected[i].category : i \in 1..Len(selected)} |->
                LET of_c(r) == r.category = c
                IN sum_amount(SelectSeq(selected, of_c))]
       ELSE [c \in {} |-> 0]

\* Series.get(key, default)
series_get(series, key, default) ==
    IF key \in DOMAIN series THEN series[key] ELSE default

\* The alerts of the budget items from position i on, in dict order.
\* current_month is computed by the code and never used.
RECURSIVE alerts_from(_, _, _)
alerts_from(df, items, i) ==
    IF i > Len(items)
    THEN <<>>
    ELSE LET category == split_first(items[i].key)
             budget_amount == items[i].amount
             spending == series_get(get_spending_by_category(df, NoMonth), category, 0)
             rest == alerts_from(df, items, i + 1)
         IN IF spending > budget_amount
            THEN <<[category |-> category, budget |-> budget_amount,
                    spent |-> spending, over |-> spending - budget_amount]>> \o rest
            ELSE rest

check_budget_alerts(df, items) == alerts_from(df, items, 1)

\* groupby keys are sorted: by date, then by type ('Expense' before 'Income').
type_rank(t) == IF t = "Expense" THEN 0 ELSE 1

key_before(a, b) ==
    \/ a[1] < b[1]
    \/ a[1] = b[1] /\ type_rank(a[2]) <= type_rank(b[2])

RECURSIVE sorted_keys(_)
sorted_keys(K) ==
    IF K = {}
    THEN <<>>
    ELSE LET first == CHOOSE a \in K : \A b \in K : key_before(a, b)
         IN <<first>> \o sorted_keys(K \ {first})

\* None is [is_none |-> TRUE]; otherwise the rows of the grouped frame.
get_trend_data(df, clock, days) ==
    IF df = <<>>
    THEN [is_none |-> TRUE, rows |-> <<>>]
    ELSE LET cutoff_date == clock - days * TicksPerDay
             recent(r) == r.date >= cutoff_date
             df_recent == SelectSeq(df, recent)
         IN IF df_recent = <<>>
            THEN [is_none |-> TRUE, rows |-> <<>>]
            ELSE LET dated == [i \in 1..Len(df_recent) |->
                                  [df_recent[i] EXCEPT !.date = date_of(df_recent[i].date)]]
                     keys == sorted_keys({<<dated[i].date, dated[i].type>> : i \in 1..Len(dated)})
                     group(k) == LET of_k(r) == r.date = k[1] /\ r.type = k[2]
                                 IN SelectSeq(dated, of_k)
                 IN [is_none |-> FALSE,
                     rows |-> [j \in 1..Len(keys) |->
                                  [date |-> keys[j][1], type |-> keys[j][2],
                                   amount |-> sum_amount(group(keys[j]))]]]

\* DataFrame.nlargest(n, 'amount'), keep='first': the row positions of the n
\* largest amounts, largest first, the earlier row first among equal amounts.
RECURSIVE nlargest(_, _, _)
nlargest(df, n, taken) ==
    LET left == (1..Len(df)) \ taken
    IN IF n <= 0 \/ left = {}
       THEN <<>>
       ELSE LET top == {i \in left : \A j \in left : df[j].amount <= df[i].amount}
                pick == Min(top)
            IN <<pick>> \o nlargest(df, n - 1, taken \cup {pick})

\* Variant: keep='last', the later row first among equal amounts.
RECURSIVE nlargest_keep_last(_, _, _)
nlargest_keep_last(df, n, taken) ==
    LET left == (1..Len(df)) \ taken
    IN IF n <= 0 \/ left = {}
       THEN <<>>
       ELSE LET top == {i \in left : \A j \in left : df[j].amount <= df[i].amount}
                pick == Max(top)
            IN <<pick>> \o nlargest_keep_last(df, n - 1, taken \cup {pick})

top_positions_keep_last(df, n) == IF df = <<>> THEN <<>> ELSE nlargest_keep_last(df, n, {})

\* The positions chosen and the rows returned, projected to the five columns.
top_positions(df, n) == IF df = <<>> THEN <<>> ELSE nlargest(df, n, {})

get_top_transactions(df, n) ==
    LET pos == top_positions(df, n)
    IN [j \in 1..Len(pos) |->
           [date |-> df[pos[j]].date, category |-> df[pos[j]].category,
            amount |-> df[pos[j]].amount, type |-> df[pos[j]].type,
            description |-> df[pos[j]].description]]

\* ---------------------------------------------------------- session helpers
\* Variant: the id is the count after the append.
add_transaction_one_based(date, category, amount, transaction_type, description, tags) ==
    /\ transactions' = Append(transactions,
           [date |-> date, category |-> category, amount |-> amount,
            type |-> transaction_type, description |-> description,
            tags |-> tags, id |-> Len(transactions) + 1])
    /\ UNCHANGED <<budgets, goals, recurring, now>>

add_transaction(date, category, amount, transaction_type, description, tags) ==
    /\ transactions' = Append(transactions,
           [date |-> date, category |-> category, amount |-> amount,
            type |-> transaction_type, description |-> description,
            tags |-> tags, id |-> Len(transactions)])
    /\ UNCHANGED <<budgets, goals, recurring, now>>

add_budget(category, amount, month) ==
    /\ UNCHANGED <<transactions, goals, recurring, now>>
    /\ budgets' = dict_set(budgets, budget_key(category, month), amount)

add_goal(goal_name, target_amount, deadline, category) ==
    /\ goals' = Append(goals,
           [name |-> goal_name, target |-> target_amount, deadline |-> deadline,
            category |-> category, created |-> date_of(now)])
    /\ UNCHANGED <<transactions, budgets, recurring, now>>

\* Variant: registering a template also posts its first ledger entry.
add_recurring_posting(category, amount, frequency, transaction_type) ==
    /\ recurring' = Append(recurring,
           [category |-> category, amount |-> amount, frequency |-> frequency,
            type |-> transaction_type, active |-> TRUE])
    /\ transactions' = Append(transactions,
           [date |-> date_of(now), category |-> category, amount |-> amount,
            type |-> transaction_type, description |-> "note",
            tags |-> <<>>, id |-> Len(transactions)])
    /\ UNCHANGED <<budgets, goals, now>>

add_recurring(category, amount, frequency, transaction_type) ==
    /\ recurring' = Append(recurring,
           [category |-> category, amount |-> amount, frequency |-> frequency,
            type |-> transaction_type, active |-> TRUE])
    /\ UNCHANGED <<transactions, budgets, goals, now>>

\* ----------------------------------------------------------- page handlers
\* "Add Transaction" page: the Add Transaction button.
AddTransactionButton(date, category, amount, transaction_type) ==
    /\ Records < MaxRecords
    /\ \E description \in Descriptions :
           add_transaction(date, category, amount, transaction_type, description, <<>>)
    /\ outcome' = "added"

\* "Budgets" page: the Set Budget button.
SetBudgetButton(category, amount, month) ==
    /\ outcome' = "added"
    /\ \/ Records < MaxRecords
       \/ \E i \in 1..Len(budgets) : budgets[i].key = budget_key(category, month)
    /\ add_budget(category, amount, month)

\* "Goals" page: the Create Goal button.
CreateGoalButton(goal_name) ==
    /\ Records < MaxRecords
    /\ \E target_amount \in GoalTargets, deadline \in Deadlines, category \in {<<"F">>} :
           add_goal(goal_name, target_amount, deadline, category)
    /\ outcome' = "added"

\* Variant: a click past the end of the list removes the last goal.
DeleteGoalButton_clamped(k) ==
    /\ IF goals # <<>>
       THEN LET r == list_pop(goals, IF k < Len(goals) THEN k ELSE Len(goals) - 1)
            IN /\ goals' = r.list
               /\ outcome' = IF r.raised THEN "IndexError" ELSE "removed"
       ELSE /\ goals' = goals
            /\ outcome' = "ignored"
    /\ UNCHANGED <<transactions, budgets, recurring, now>>

\* "Goals" page: a click on the button keyed delete_goal_<k>.  The page
\* creates that button only while k is an index of the list; a click whose
\* key no button of this run carries is dropped.
DeleteGoalButton(k) ==
    /\ IF k < Len(goals)
       THEN LET r == list_pop(goals, k)
            IN /\ goals' = r.list
               /\ outcome' = IF r.raised THEN "IndexError" ELSE "removed"
       ELSE /\ goals' = goals
            /\ outcome' = "ignored"
    /\ UNCHANGED <<transactions, budgets, recurring, now>>

\* "Recurring" page: the Add Recurring button.
AddRecurringButton(category, transaction_type) ==
    /\ Records < MaxRecords
    /\ \E amount \in RecurringAmounts, frequency \in Frequencies :
           add_recurring(category, amount, frequency, transaction_type)
    /\ outcome' = "added"

\* "Recurring" page: a click on the button keyed delete_rec_<k>.
DeleteRecurringButton(k) ==
    /\ IF k < Len(recurring)
       THEN LET r == list_pop(recurring, k)
            IN /\ recurring' = r.list
               /\ outcome' = IF r.raised THEN "IndexError" ELSE "removed"
       ELSE /\ recurring' = recurring
            /\ outcome' = "ignored"
    /\ UNCHANGED <<transactions, budgets, goals, now>>

\* A run of the script without a button: a page is selected and drawn.  The
\* aggregation helpers it calls work on the frame get_dataframe() builds.
Render ==
    /\ outcome' = "rendered"
    /\ UNCHANGED <<transactions, budgets, goals, recurring, now>>

\* The clock of datetime.now() advances.
Tick ==
    /\ now < TicksPerDay + MaxTicks
    /\ now' = now + 1
    /\ UNCHANGED <<transactions, budgets, goals, recurring, outcome>>

AddTransactionPage ==
    \E date \in Dates, category \in Categories, amount \in Amounts, transaction_type \in Kinds :
        AddTransactionButton(date, category, amount, transaction_type)

BudgetsPage ==
    \E category \in Categories, amount \in Amounts, month \in Months :
        SetBudgetButton(category, amount, month)

GoalsPageCreate == \E goal_name \in GoalNames : CreateGoalButton(goal_name)

GoalsPageDelete == \E k \in 0..MaxClickIdx : DeleteGoalButton(k)

RecurringPageAdd ==
    \E category \in Categories, transaction_type \in {"Expense"} :
        AddRecurringButton(category, transaction_type)

RecurringPageDelete == \E k \in 0..MaxClickIdx : DeleteRecurringButton(k)

Next ==
    \/ AddTransactionPage
    \/ BudgetsPage
    \/ GoalsPageCreate
    \/ GoalsPageDelete
    \/ RecurringPageAdd
    \/ RecurringPageDelete
    \/ Render
    \/ Tick

Spec == Init /\ [][Next]_vars

\* The ledger alone: transactions are added and pages drawn, which is all the
\* helpers that aggregate the ledger read.
NextLedger ==
    \/ AddTransactionPage
    \/ Render

SpecLedger == Init /\ [][NextLedger]_vars

\* ------------------------------------------------ operators of the properties
\* The sum of the amounts of the rows at the positions S.
RECURSIVE amount_over(_, _)
amount_over(df, S) ==
    IF S = {}
    THEN 0
    ELSE LET i == CHOOSE x \in S : TRUE
         IN df[i].amount + amount_over(df, S \ {i})

\* The members of a set of numbers, ascending.
RECURSIVE ascending(_)
ascending(S) == IF S = {} THEN <<>> ELSE <<Min(S)>> \o ascending(S \ {Min(S)})

\* The sum of the values of a Series.
RECURSIVE sum_values(_, _)
sum_values(series, D) ==
    IF D = {}
    THEN 0
    ELSE LET c == CHOOSE x \in D : TRUE
         IN series[c] + sum_values(series, D \ {c})

Permutations(n) == {p \in [1..n -> 1..n] : \A i, j \in 1..n : p[i] = p[j] => i = j}

Frame == get_dataframe(transactions)

\* ----------------------------------------------------------------------- C1
\* C1: for every budget item, an alert {category, budget, spent, over} is
\* emitted iff the Expense total of its category over the records dated in
\* the current calendar month exceeds the budget, and 'spent' is that
\* current-month total; records of other months do not count.
C1_AlertsUseCurrentMonth ==
    LET current_month == strftime_Ym(date_of(now))
        spent(i) == amount_over(Frame,
                        {r \in 1..Len(Frame) :
                            /\ Frame[r].type = "Expense"
                            /\ Frame[r].category = split_first(budgets[i].key)
                            /\ to_period_M(Frame[r].date) = current_month})
        over == ascending({i \in 1..Len(budgets) : spent(i) > budgets[i].amount})
    IN check_budget_alerts(Frame, budgets) =
           [j \in 1..Len(over) |->
               [category |-> split_first(budgets[over[j]].key),
                budget |-> budgets[over[j]].amount,
                spent |-> spent(over[j]),
                over |-> spent(over[j]) - budgets[over[j]].amount]]

\* ----------------------------------------------------------------------- C2
\* C2: for every window length, a record contributes to the trend iff its
\* date lies in [now - days, now]; the result has one row per (date, kind)
\* present in the window with the sum of the amounts, dates ascending, and is
\* the no-data value exactly when the window holds no record.
C2_TrendWindow ==
    \A days \in 0..MaxDays :
        LET W == {i \in 1..Len(Frame) :
                     /\ now - days * TicksPerDay <= Frame[i].date
                     /\ Frame[i].date <= now}
            keys == {<<date_of(Frame[i].date), Frame[i].type>> : i \in W}
            res == get_trend_data(Frame, now, days)
        IN /\ res.is_none <=> W = {}
           /\ ~res.is_none =>
                 /\ {<<res.rows[j].date, res.rows[j].type>> : j \in 1..Len(res.rows)} = keys
                 /\ Len(res.rows) = Cardinality(keys)
                 /\ \A j \in 1..Len(res.rows) :
                        res.rows[j].amount =
                            amount_over(Frame, {i \in W :
                                /\ date_of(Frame[i].date) = res.rows[j].date
                                /\ Frame[i].type = res.rows[j].type})
                 /\ \A j, k \in 1..Len(res.rows) :
                        j < k => res.rows[j].date <= res.rows[k].date

\* ----------------------------------------------------------------------- C3
\* C3: the balance is the sum of the Income amounts minus the sum of the
\* Expense amounts, 0 for the empty ledger, and the same for every
\* permutation of the ledger.
C3_Balance ==
    LET n == Len(transactions)
        signed(i) == IF transactions[i].type = "Income"
                     THEN transactions[i].amount
                     ELSE 0 - transactions[i].amount
        total == amount_over(transactions, {i \in 1..n : transactions[i].type = "Income"})
                 - amount_over(transactions, {i \in 1..n : transactions[i].type = "Expense"})
    IN /\ calculate_balance(transactions) = total
       /\ n = 0 => calculate_balance(transactions) = 0
       /\ \A p \in Permutations(n) :
              calculate_balance([i \in 1..n |-> transactions[p[i]]])
                  = calculate_balance(transactions)

C3_Witness ==
    /\ Len(transactions) >= 3
    /\ \E i, j \in 1..Len(transactions) :
           /\ i < j
           /\ transactions[i].type = "Expense"
           /\ transactions[j].type = "Income"
           /\ transactions[i].amount > transactions[j].amount

\* ----------------------------------------------------------------------- C4
\* C4: for every n >= 0 the top-n result has min(n, ledger size) rows, they
\* are rows of the ledger in non-increasing order of amount, no row left out
\* has a larger amount than a row included, and rows of equal amount are
\* chosen and listed in ledger order.
C4_TopN ==
    \A n \in 0..MaxN :
        LET pos == top_positions(Frame, n)
            res == get_top_transactions(Frame, n)
            chosen == {pos[j] : j \in 1..Len(pos)}
        IN /\ Len(res) = IF n < Len(Frame) THEN n ELSE Len(Frame)
           /\ chosen \subseteq 1..Len(Frame)
           /\ Cardinality(chosen) = Len(res)
           /\ \A j \in 1..Len(res) :
                  /\ res[j].amount = transactions[pos[j]].amount
                  /\ res[j].category = transactions[pos[j]].category
                  /\ res[j].type = transactions[pos[j]].type
                  /\ res[j].date = to_datetime(transactions[pos[j]].date)
           /\ \A j, k \in 1..Len(res) : j < k => res[j].amount >= res[k].amount
           /\ \A i \in (1..Len(Frame)) \ chosen : \A q \in chosen :
                  /\ Frame[i].amount <= Frame[q].amount
                  /\ Frame[i].amount = Frame[q].amount => q < i
           /\ \A j, k \in 1..Len(pos) :
                  j < k /\ Frame[pos[j]].amount = Frame[pos[k]].amount => pos[j] < pos[k]

C4_Witness ==
    /\ Len(transactions) >= 3
    /\ transactions[1].amount < transactions[2].amount
    /\ transactions[2].amount = transactions[3].amount

\* ----------------------------------------------------------------------- C5
\* C5: in every reachable state the record at ledger position i (from 0) has
\* id i, so no two records share an id.
C5_SequentialIds ==
    /\ \A i \in 1..Len(transactions) : transactions[i].id = i - 1
    /\ \A i, j \in 1..Len(transactions) :
           transactions[i].id = transactions[j].id => i = j

C5_Witness ==
    /\ Len(transactions) >= 2
    /\ transactions[Len(transactions)].id = Len(transactions) - 1
    /\ outcome = "removed"

\* ----------------------------------------------------------------------- C6
\* C6: in every step the old ledger is a prefix of the new one; only the Add
\* Transaction button changes it, by exactly one record at the end; setting a
\* budget, creating or deleting a goal or a recurring template, drawing a
\* page and the clock leave it unchanged.
C6_LedgerAppendOnly ==
    [][/\ Len(transactions') >= Len(transactions)
       /\ SubSeq(transactions', 1, Len(transactions)) = transactions
       /\ transactions' # transactions =>
              /\ Len(transactions') = Len(transactions) + 1
              /\ AddTransactionPage
       /\ \/ transactions' = transactions
          \/ ~(\/ BudgetsPage
               \/ GoalsPageCreate
               \/ GoalsPageDelete
               \/ RecurringPageAdd
               \/ RecurringPageDelete
               \/ Render
               \/ Tick)]_vars

C6_Witness ==
    /\ Len(transactions) >= 1
    /\ Len(recurring) >= 1
    /\ goals # <<>>

\* ----------------------------------------------------------------------- C7
\* The limits the registry d holds for a (category, month) pair.
limits_of(d, category, month) ==
    {d[i].amount : i \in {j \in 1..Len(d) : d[j].key = budget_key(category, month)}}

\* C7: the registry holds at most one limit per (category, month) pair; after
\* a budget is set for a pair the limit of the pair is the amount set, and the
\* limit of every other pair is what it was; nothing else changes a limit.
C7_BudgetOverwrite ==
    [][/\ \A c \in Categories, m \in Months :
              Cardinality({j \in 1..Len(budgets') : budgets'[j].key = budget_key(c, m)}) <= 1
       /\ \A c \in Categories, m \in Months, a \in Amounts :
              SetBudgetButton(c, a, m) =>
                  /\ limits_of(budgets', c, m) = {a}
                  /\ \A c2 \in Categories, m2 \in Months :
                         <<c2, m2>> # <<c, m>> =>
                             limits_of(budgets', c2, m2) = limits_of(budgets, c2, m2)
       /\ budgets' # budgets => BudgetsPage]_vars

C7_Witness ==
    /\ Len(budgets) >= 2
    /\ \E i, j \in 1..Len(budgets) :
           /\ i # j
           /\ split_first(budgets[i].key) = split_first(budgets[j].key)
           /\ budgets[i].amount # budgets[j].amount

\* ----------------------------------------------------------------------- C8
\* new is old without its element at index i (from 0): the elements before i
\* keep their positions, the elements after i move down by one.
removed_at(old, new, i) ==
    /\ Len(new) = Len(old) - 1
    /\ \A j \in 1..i : new[j] = old[j]
    /\ \A j \in (i + 2)..Len(old) : new[j - 1] = old[j]

\* C8: deleting at a valid index of the goal list (of the recurring list)
\* removes exactly that element, the others keeping their order, and leaves
\* the other list, the budgets and the ledger untouched.
C8_RemoveAt ==
    [][\A k \in 0..MaxClickIdx :
           /\ k < Len(goals) /\ DeleteGoalButton(k) =>
                  /\ removed_at(goals, goals', k)
                  /\ UNCHANGED <<recurring, budgets, transactions>>
           /\ k < Len(recurring) /\ DeleteRecurringButton(k) =>
                  /\ removed_at(recurring, recurring', k)
                  /\ UNCHANGED <<goals, budgets, transactions>>]_vars

C8_Witness ==
    /\ outcome = "removed"
    /\ Len(goals) = 2
    /\ goals[1].name # goals[2].name

C10_CategorySpending ==
    LET series == get_spending_by_category(Frame, NoMonth)
        E == {i \in 1..Len(transactions) : transactions[i].type = "Expense"}
    IN /\ DOMAIN series = {transactions[i].category : i \in E}
       /\ \A c \in DOMAIN series :
              series[c] = amount_over(transactions, {i \in E : transactions[i].category = c})
       /\ sum_values(series, DOMAIN series) = amount_over(transactions, E)
       /\ E = {} => DOMAIN series = {}

C10_Witness ==
    /\ \E i, j, k \in 1..Len(transactions) :
           /\ transactions[i].type = "Expense"
           /\ transactions[j].type = "Expense"
           /\ transactions[i].category # transactions[j].category
           /\ transactions[k].type = "Income"
           /\ transactions[k].category = transactions[i].category

\* ---------------------------------------------------------------------- C11
\* C11: for every budget stored for (category, month), the category that the
\* alerts and the budget overview recover from the stored key, the text
\* before its first '_', is the category the budget was set for, whatever
\* the category text, so the spending compared with the limit is that of the
\* category the limit was set for.
C11_KeyRoundTrip ==
    [][\A c \in Categories, m \in Months, a \in Amounts :
           SetBudgetButton(c, a, m) =>
               \E i \in 1..Len(budgets') :
                   /\ budgets'[i].key = budget_key(c, m)
                   /\ budgets'[i].amount = a
                   /\ split_first(budgets'[i].key) = c]_vars

====
